---- MODULE Spec2Model ----
(***************************************************************************)
(* Model of packages/react-app/src/models/Bounty.ts: the yup schemas       *)
(* BountySchema and BountyClaimSchema, their mode-aware field policy       *)
(* (requiredForPost), the composite rules (bothRequiredIfOneRequired, the  *)
(* Reward completeness test), and a record store that the validated        *)
(* output of POST / PATCH / claim requests is merged into.                 *)
(*                                                                         *)
(* A JavaScript value that may be undefined is an option: Undef (<<>>) or  *)
(* Some(v) (<<v>>).  An object is a function from its keys to options; a   *)
(* key holding Undef is an absent key.  Every object carries the key       *)
(* UnknownKey, standing for a key no schema declares.                      *)
(***************************************************************************)
EXTENDS Integers, Sequences, FiniteSets, TLC

VARIABLES stored, strict, n, kind, method, cand, ok, errs, out

vars == <<stored, strict, n, kind, method, cand, ok, errs, out>>

\* Number of requests one behaviour of the store issues.
MaxOps == 3
\* Longest statusHistory a candidate carries.
MaxHist == 1

Undef == <<>>
Some(v) == <<v>>
Get(x) == x[1]

UnknownKey == "unknownKey"
NoMethod == "none"

\* !!x for a string and for a number
TruthyStr(x) == x # Undef /\ Get(x) # ""
TruthyNum(x) == x # Undef /\ Get(x) # 0

(***************************************************************************)
(* Schema descriptors: what the yup builders accumulate.                   *)
(***************************************************************************)
base(type, shape) ==
  [type |-> type, shape |-> shape, defined |-> FALSE, required |-> FALSE,
   hasDefault |-> FALSE, dflt |-> Undef, min0 |-> FALSE, oneOf |-> {},
   noUnknown |-> FALSE]

string_Defaulted == [base("string", "") EXCEPT !.hasDefault = TRUE, !.dflt = Some("")]

string == base("string", "")
number == base("number", "")
mixed == base("mixed", "")
object(shape) == base("object", shape)
array(shape) == base("array", shape)

defined(schema) == [schema EXCEPT !.defined = TRUE]
required(schema) == [schema EXCEPT !.required = TRUE]
optional(schema) == [schema EXCEPT !.required = FALSE]
default_Dropped(schema, d) == schema

default(schema, d) == [schema EXCEPT !.hasDefault = TRUE, !.dflt = d]
min(schema) == [schema EXCEPT !.min0 = TRUE]
oneOf(schema, enums) == [schema EXCEPT !.oneOf = enums]
noUnknown(schema) == [schema EXCEPT !.noUnknown = TRUE]

requiredForPost_NoObjectDefault(m, schema, isObject) ==
  IF m = "POST" THEN defined(schema) ELSE optional(schema)

requiredForPost_AlwaysOptional(m, schema, isObject) ==
  IF isObject THEN default(optional(schema), Undef) ELSE optional(schema)

requiredForPost(m, schema, isObject) ==
  IF m = "POST" THEN defined(schema)
  ELSE IF isObject THEN default(optional(schema), Undef)
  ELSE optional(schema)

bothRequiredIfOneRequired_Either(params) ==
  IF params # Undef
     /\ (TruthyStr(Get(params).discordHandle) \/ TruthyStr(Get(params).discordId))
  THEN TruthyStr(Get(params).discordId) \/ TruthyStr(Get(params).discordHandle)
  ELSE TRUE

bothRequiredIfOneRequired_IdOnly(params) ==
  IF params # Undef /\ TruthyStr(Get(params).discordId)
  THEN TruthyStr(Get(params).discordId) /\ TruthyStr(Get(params).discordHandle)
  ELSE TRUE

bothRequiredIfOneRequired(params) ==
  IF params # Undef
     /\ (TruthyStr(Get(params).discordHandle) \/ TruthyStr(Get(params).discordId))
  THEN TruthyStr(Get(params).discordId) /\ TruthyStr(Get(params).discordHandle)
  ELSE TRUE

DiscordUserFields ==
  [discordHandle |-> optional(string), discordId |-> optional(string)]

DiscordUser == object("DiscordUser")

RequiredDiscordUserFields(m) ==
  [discordId |-> requiredForPost(m, string, FALSE),
   discordHandle |-> requiredForPost(m, string, FALSE)]

RequiredDiscordUser == object("RequiredDiscordUser")

RewardFields(m) ==
  [amount |-> requiredForPost(m, min(number), FALSE),
   currency |-> requiredForPost(m, default(string, Some("BANK")), FALSE),
   scale |-> requiredForPost(m, default(number, Some(0)), FALSE),
   amountWithoutScale |-> requiredForPost(m, number, FALSE)]

Reward == object("Reward")

RewardTest_Truthy(params) ==
  IF params # Undef
  THEN /\ TruthyNum(Get(params).amount)
       /\ TruthyNum(Get(params).scale)
       /\ TruthyNum(Get(params).amountWithoutScale)
       /\ TruthyStr(Get(params).currency)
  ELSE TRUE

RewardTest(params) ==
  IF params # Undef
  THEN /\ (TruthyNum(Get(params).amount) \/ Get(params).amount = Some(0))
       /\ (TruthyNum(Get(params).scale) \/ Get(params).scale = Some(0))
       /\ (TruthyNum(Get(params).amountWithoutScale)
             \/ Get(params).amountWithoutScale = Some(0))
       /\ TruthyStr(Get(params).currency)
  ELSE TRUE

StatusValues_Open == {"Draft", "Open", "In-Progress", "In-Review", "Completed", "Deleted", "Bogus"}

StatusValues == {"Draft", "Open", "In-Progress", "In-Review", "Completed", "Deleted"}

Status == oneOf(mixed, StatusValues)

StatusHistoryFields == [status |-> Status, modifiedAt |-> string]

StatusHistory == object("StatusHistory")

BountyFields(m) ==
  [_id |-> optional(string),
   title |-> requiredForPost(m, string, FALSE),
   description |-> requiredForPost(m, string, FALSE),
   criteria |-> requiredForPost(m, string, FALSE),
   customerId |-> requiredForPost(m, string, FALSE),
   status |-> requiredForPost(m, Status, FALSE),
   dueAt |-> requiredForPost(m, string, FALSE),
   reward |-> requiredForPost(m, Reward, TRUE),
   statusHistory |-> optional(array("StatusHistory")),
   discordMessageId |-> optional(string),
   submissionNotes |-> optional(string),
   submissionUrl |-> optional(string),
   createdAt |-> requiredForPost(m, string, FALSE),
   claimedAt |-> optional(string),
   submittedAt |-> optional(string),
   reviewedAt |-> optional(string),
   createdBy |-> requiredForPost(m, RequiredDiscordUser, TRUE),
   claimedBy |-> default(optional(DiscordUser), Undef),
   submittedBy |-> default(optional(DiscordUser), Undef),
   reviewedBy |-> default(optional(DiscordUser), Undef)]

BountySchema == noUnknown(object("Bounty"))

BountyClaimFields ==
  [submissionNotes |-> required(string),
   claimedBy |-> required(DiscordUser),
   status |-> required(Status),
   statusHistory |-> required(array("StatusHistory"))]

BountyClaimSchema == noUnknown(object("BountyClaim"))

\* The fields of an object schema, its `when('$method', ...)` conditions
\* resolved against the validation context.
Fields(shape, m) ==
  CASE shape = "DiscordUser" -> DiscordUserFields
    [] shape = "RequiredDiscordUser" -> RequiredDiscordUserFields(m)
    [] shape = "Reward" -> RewardFields(m)
    [] shape = "StatusHistory" -> StatusHistoryFields
    [] shape = "Bounty" -> BountyFields(m)
    [] shape = "BountyClaim" -> BountyClaimFields

\* The `.test('is-optional', ...)` attached to an object schema.
ShapeTest(shape, params) ==
  CASE shape \in {"DiscordUser", "RequiredDiscordUser"} -> bothRequiredIfOneRequired(params)
    [] shape = "Reward" -> RewardTest(params)
    [] OTHER -> TRUE

(***************************************************************************)
(* yup's evaluation of a schema: getDefault, cast, the tests of validate.  *)
(***************************************************************************)
\* schema.getDefault(): the declared default; an object schema that declares
\* none invents one from its fields' defaults (resolved without a context).
RECURSIVE getDefault(_)
getDefault(schema) ==
  IF schema.hasDefault THEN schema.dflt
  ELSE IF schema.type = "object"
  THEN LET F == Fields(schema.shape, NoMethod)
       IN Some([k \in DOMAIN F \cup {UnknownKey} |->
                  IF k \in DOMAIN F THEN getDefault(F[k]) ELSE Undef])
  ELSE Undef

\* schema.cast(value, {context: {method: m}}): defaults fill undefined values,
\* objects and arrays cast their members, noUnknown strips undeclared keys.
RECURSIVE cast(_, _, _)
cast(schema, v, m) ==
  IF v = Undef THEN getDefault(schema)
  ELSE IF schema.type = "object"
  THEN LET F == Fields(schema.shape, m)
       IN Some([k \in DOMAIN Get(v) |->
                  IF k \in DOMAIN F THEN cast(F[k], Get(v)[k], m)
                  ELSE IF schema.noUnknown THEN Undef
                  ELSE Get(v)[k]])
  ELSE IF schema.type = "array"
  THEN Some([i \in DOMAIN Get(v) |-> Get(cast(object(schema.shape), Some(Get(v)[i]), m))])
  ELSE v

\* schema._isPresent(value): what required() tests.
isPresent(schema, v) ==
  /\ v # Undef
  /\ schema.type = "string" => Get(v) # ""
  /\ schema.type = "array" => Len(Get(v)) > 0

\* The violations validate collects (abortEarly: false) for value v at path:
\* pairs <<path, test name>>.
RECURSIVE errors(_, _, _, _)
errors(schema, v, path, m) ==
  LET own ==
        (IF schema.defined /\ v = Undef THEN {<<path, "defined">>} ELSE {})
        \cup (IF schema.required /\ ~isPresent(schema, v) THEN {<<path, "required">>} ELSE {})
        \cup (IF schema.oneOf # {} /\ v # Undef /\ Get(v) \notin schema.oneOf
              THEN {<<path, "oneOf">>} ELSE {})
        \cup (IF schema.min0 /\ v # Undef /\ Get(v) < 0 THEN {<<path, "min">>} ELSE {})
        \cup (IF schema.type = "object" /\ ~ShapeTest(schema.shape, v)
              THEN {<<path, "is-optional">>} ELSE {})
        \cup (IF schema.noUnknown /\ v # Undef /\ Get(v)[UnknownKey] # Undef
              THEN {<<path, "noUnknown">>} ELSE {})
      inner ==
        IF v = Undef THEN {}
        ELSE IF schema.type = "object"
        THEN LET F == Fields(schema.shape, m)
             IN UNION {errors(F[k], Get(v)[k], path \o <<k>>, m) : k \in DOMAIN F}
        ELSE IF schema.type = "array"
        THEN UNION {errors(object(schema.shape), Some(Get(v)[i]),
                           path \o <<ToString(i - 1)>>, m) : i \in DOMAIN Get(v)}
        ELSE {}
  IN own \cup inner

\* schema.validate(candidate, {strict: s, abortEarly: false, context: {method: m}}):
\* unless strict, the candidate is cast first and the cast value is what the
\* tests see and what a successful validation returns.
validate(schema, candidate, m, s) ==
  LET value == IF s THEN Some(candidate) ELSE cast(schema, Some(candidate), m)
      es == errors(schema, value, <<>>, m)
  IN [ok |-> es = {}, errors |-> es, value |-> value]

(***************************************************************************)
(* Candidate records: the request bodies the checks range over.            *)
(***************************************************************************)
Obj(keys, a) ==
  [k \in keys \cup {UnknownKey} |-> IF k \in DOMAIN a THEN a[k] ELSE Undef]

BountyKeys == DOMAIN BountyFields(NoMethod)
ClaimKeys == DOMAIN BountyClaimFields
RewardKeys == DOMAIN RewardFields(NoMethod)
UserKeys == DOMAIN DiscordUserFields
HistoryKeys == DOMAIN StatusHistoryFields

\* The fields BountySchema passes through requiredForPost as scalars,
\* and as objects.
GovernedScalars ==
  {"title", "description", "criteria", "customerId", "status", "dueAt", "createdAt"}
Composites == {"reward", "createdBy", "claimedBy", "submittedBy", "reviewedBy"}
OptionalPairs == {"claimedBy", "submittedBy", "reviewedBy"}

User(id, handle, extra) ==
  Obj(UserKeys, [discordId |-> id, discordHandle |-> handle]
                  @@ (UnknownKey :> extra))

RewardOf(a, c, sc, aws, extra) ==
  Obj(RewardKeys, [amount |-> a, currency |-> c, scale |-> sc,
                   amountWithoutScale |-> aws] @@ (UnknownKey :> extra))

Entry(st, extra) ==
  Obj(HistoryKeys, [status |-> st, modifiedAt |-> Some("2024-02-01")]
                     @@ (UnknownKey :> extra))

GoodUser == User(Some("1"), Some("h"), Undef)
GoodReward == RewardOf(Some(100), Some("BANK"), Some(2), Some(1), Undef)
ZeroReward == RewardOf(Some(0), Some("BANK"), Some(0), Some(0), Undef)

\* The record of the specification's Create scenario, and the empty body.
Good ==
  Obj(BountyKeys,
      [title |-> Some("Fix bug"), description |-> Some("d"), criteria |-> Some("c"),
       customerId |-> Some("c1"), status |-> Some("Draft"), dueAt |-> Some("2024-01-01"),
       reward |-> Some(GoodReward), createdAt |-> Some("2024-01-01"),
       createdBy |-> Some(GoodUser)])
Empty == Obj(BountyKeys, <<>>)

\* The body of the specification's claim scenario.
GoodClaim ==
  Obj(ClaimKeys,
      [submissionNotes |-> Some("done"), claimedBy |-> Some(GoodUser),
       status |-> Some("In-Review"),
       statusHistory |-> Some(<<Entry(Some("In-Review"), Undef)>>)])

Extras == {Undef, Some("x")}
StringDom == {Undef, Some(""), Some("other")}
StatusDom == {Undef, Some("Open"), Some("Completed"), Some("Bogus")}
UserDom ==
  {Undef} \cup {Some(User(i, h, x)) : i \in {Undef, Some(""), Some("1")},
                                      h \in {Undef, Some(""), Some("h")},
                                      x \in Extras}
RewardDom ==
  {Undef} \cup {Some(RewardOf(a, c, sc, aws, x)) :
                  a \in {Undef, Some(0), Some(5), Some(-1)},
                  c \in {Undef, Some(""), Some("BANK"), Some("ETH")},
                  sc \in {Undef, Some(0), Some(2)},
                  aws \in {Undef, Some(0), Some(500)},
                  x \in Extras}
EntryDom ==
  {Entry(Undef, Undef), Entry(Some("In-Review"), Undef),
   Entry(Some("Bogus"), Undef), Entry(Some("In-Review"), Some("x"))}
RECURSIVE SeqsUpTo(_, _)
SeqsUpTo(S, len) ==
  IF len = 0 THEN {<<>>}
  ELSE LET shorter == SeqsUpTo(S, len - 1)
       IN shorter \cup {Append(q, e) : q \in {r \in shorter : Len(r) = len - 1}, e \in S}
HistoryDom == {Undef} \cup {Some(q) : q \in SeqsUpTo(EntryDom, MaxHist)}

FullDom(k) ==
  CASE k = "status" -> StatusDom
    [] k = "reward" -> RewardDom
    [] k = "statusHistory" -> HistoryDom
    [] k \in {"createdBy"} \cup OptionalPairs -> UserDom
    [] k = UnknownKey -> Extras
    [] OTHER -> StringDom

\* A base record with at most one field replaced and at most one governed
\* scalar removed.
BountyCandidates ==
  UNION {{[[b EXCEPT ![k] = v] EXCEPT ![f] = IF f = UnknownKey THEN @ ELSE Undef] :
            b \in {Good, Empty}, v \in FullDom(k),
            f \in GovernedScalars \cup {UnknownKey}} : k \in DOMAIN Good}

ClaimCandidates ==
  {Obj(ClaimKeys, [submissionNotes |-> sn, claimedBy |-> u, status |-> st,
                   statusHistory |-> h] @@ (UnknownKey :> x)) :
     sn \in {Undef, Some(""), Some("done")}, u \in UserDom,
     st \in {Undef, Some("In-Review"), Some("Bogus")}, h \in HistoryDom,
     x \in Extras}

\* The requests the store is driven with.
CreateBodies ==
  {Good, Empty,
   [Good EXCEPT !.title = Undef],
   [Good EXCEPT !.status = Some("Bogus")],
   [Good EXCEPT !.reward = Some(ZeroReward)],
   [Good EXCEPT !.reward = Some(RewardOf(Some(5), Some("ETH"), Some(3), Some(5000), Undef))],
   [Good EXCEPT !.reward = Undef],
   [Good EXCEPT !.statusHistory = Some(<<Entry(Some("Draft"), Undef)>>)],
   [Good EXCEPT !.claimedBy = Some(GoodUser)]}

UpdateBodies ==
  {Empty,
   [Empty EXCEPT !.title = Some("other")],
   [Empty EXCEPT !.status = Some("Completed")],
   [Empty EXCEPT !.status = Some("Bogus")],
   [Empty EXCEPT !.reward = Some(ZeroReward)],
   [Empty EXCEPT !.reward = Some(RewardOf(Some(5), Undef, Undef, Some(500), Undef))],
   [Empty EXCEPT !.reward = Some(RewardOf(Some(5), Some("ETH"), Some(2), Some(500), Some("x")))],
   [Empty EXCEPT !.statusHistory = Some(<<Entry(Some("Open"), Undef)>>)],
   [Empty EXCEPT !.statusHistory = Some(<<Entry(Some("Bogus"), Undef)>>)],
   [Empty EXCEPT !.statusHistory = Some(<<Entry(Undef, Undef)>>)],
   [Empty EXCEPT !.claimedBy = Some(User(Some("2"), Some("g"), Undef))],
   [Empty EXCEPT !.claimedBy = Some(User(Some("2"), Undef, Undef))],
   [Empty EXCEPT !.createdBy = Some(User(Undef, Some("g"), Undef))],
   [Empty EXCEPT !.createdBy = Some(User(Some("2"), Some("g"), Undef))],
   [Empty EXCEPT ![UnknownKey] = Some("x")],
   [Good EXCEPT !.dueAt = Undef, !.description = Some("other")]}

ClaimBodies ==
  {GoodClaim,
   [GoodClaim EXCEPT !.claimedBy = Some(User(Undef, Undef, Undef))],
   [GoodClaim EXCEPT !.claimedBy = Undef],
   [GoodClaim EXCEPT !.statusHistory = Some(<<>>)],
   [GoodClaim EXCEPT !.status = Some("Bogus")],
   [GoodClaim EXCEPT !.statusHistory = Some(<<Entry(Some("Bogus"), Undef)>>)]}

(***************************************************************************)
(* The store: one bounty, created by a POST, changed by PATCH and claim    *)
(* requests whose validated output is merged into it.                      *)
(***************************************************************************)
\* The keys the validated output sets replace the stored ones, each as a unit.
merge(old, new) ==
  [k \in DOMAIN old |-> IF k \in DOMAIN new /\ new[k] # Undef THEN new[k] ELSE old[k]]

Init ==
  /\ stored = Undef
  /\ strict \in BOOLEAN
  /\ n = 0
  /\ kind = "init"
  /\ method = NoMethod
  /\ cand = Undef
  /\ ok = FALSE
  /\ errs = {}
  /\ out = Undef

Request(k, schema, c, m) ==
  LET r == validate(schema, c, m, strict)
  IN /\ n < MaxOps
     /\ n' = n + 1
     /\ kind' = k
     /\ method' = m
     /\ cand' = Some(c)
     /\ ok' = r.ok
     /\ errs' = r.errors
     /\ out' = IF r.ok THEN r.value ELSE Undef
     /\ stored' = IF ~r.ok THEN stored
                  ELSE IF stored = Undef THEN r.value
                  ELSE Some(merge(Get(stored), Get(r.value)))
     /\ UNCHANGED strict

Create == \E c \in CreateBodies : stored = Undef /\ Request("create", BountySchema, c, "POST")

Update == \E c \in UpdateBodies : stored # Undef /\ Request("update", BountySchema, c, "PATCH")

Claim ==
  \E c \in ClaimBodies, m \in {"POST", "PATCH"} :
    stored # Undef /\ Request("claim", BountyClaimSchema, c, m)

Next == Create \/ Update \/ Claim

Spec == Init /\ [][Next]_vars

(***************************************************************************)
(* The validators alone, applied once to every candidate.                  *)
(***************************************************************************)
InitValidate ==
  /\ stored = Undef
  /\ strict \in BOOLEAN
  /\ n = 0
  /\ method \in {"POST", "PATCH"}
  /\ \/ kind = "bounty" /\ cand \in {Some(c) : c \in BountyCandidates}
     \/ kind = "claimBody" /\ cand \in {Some(c) : c \in ClaimCandidates}
  /\ ok = FALSE
  /\ errs = {}
  /\ out = Undef

Validated(k, schema) ==
  LET r == validate(schema, Get(cand), method, strict)
  IN /\ kind' = k
     /\ ok' = r.ok
     /\ errs' = r.errors
     /\ out' = IF r.ok THEN r.value ELSE Undef
     /\ UNCHANGED <<stored, strict, n, method, cand>>

ValidateBounty == kind = "bounty" /\ Validated("checked", BountySchema)

ValidateClaim == kind = "claimBody" /\ Validated("checkedClaim", BountyClaimSchema)

NextValidate == ValidateBounty \/ ValidateClaim

SpecValidate == InitValidate /\ [][NextValidate]_vars

(***************************************************************************)
(* Properties.                                                             *)
(***************************************************************************)
\* The violations reported at or below top-level field p.
Under(es, p) == {e \in es : Len(e[1]) >= 1 /\ e[1][1] = p}

Checked == kind = "checked"
Body == Get(cand)

\* C1: under POST, a candidate lacking one of the seven mode-governed scalar
\* fields fails; the violations at that field are exactly the one "defined"
\* (missing-required) violation, and no field that holds the value of the
\* well-formed record Good has a violation reported for it.
C1_MissingScalarRejected ==
  (Checked /\ method = "POST") =>
    \A f \in GovernedScalars :
      Body[f] = Undef =>
        /\ ~ok
        /\ Under(errs, f) = {<<<<f>>, "defined">>}
        /\ \A g \in DOMAIN Good \ {UnknownKey} :
             (Good[g] # Undef /\ Body[g] = Good[g]) => Under(errs, g) = {}

C1_Witness ==
  /\ Checked /\ method = "POST"
  /\ Body = [Good EXCEPT !.customerId = Undef]
  /\ errs = {<<<<"customerId">>, "defined">>}

SuppliesOne(v) ==
  v # Undef /\ ((Get(v).discordId # Undef) # (Get(v).discordHandle # Undef))

\* A pair holds exactly one non-empty identifier; the other is missing or is
\* the empty string.
OneOfPair(v) ==
  v # Undef /\ (TruthyStr(Get(v).discordId) # TruthyStr(Get(v).discordHandle))

\* C3 as stated: for claimedBy, submittedBy and reviewedBy, under POST and
\* PATCH alike, a pair supplying exactly one of discordId and discordHandle
\* gets exactly one violation, the pairing one on the pair's path, and a pair
\* supplying both or neither gets none.
C3_PairPresentOrAbsent ==
  Checked =>
    \A p \in OptionalPairs :
      Under(errs, p) = IF SuppliesOne(Body[p]) THEN {<<<<p>>, "is-optional">>} ELSE {}

\* C3 amended: the same with an identifier counting as present only when it is
\* a non-empty string: a pair holding exactly one non-empty identifier gets
\* exactly the pairing violation on its path; a pair holding two non-empty
\* identifiers, or none (omitted, empty, or empty strings only), gets none.
C3_OptionalPairBothOrNeither ==
  Checked =>
    \A p \in OptionalPairs :
      Under(errs, p) = IF OneOfPair(Body[p]) THEN {<<<<p>>, "is-optional">>} ELSE {}

C3_Witness ==
  /\ Checked /\ method = "PATCH" /\ ~ok
  /\ Body.submittedBy = Some(User(Undef, Some("h"), Undef))
  /\ errs = {<<<<"submittedBy">>, "is-optional">>}

\* C4 as stated: a createdBy supplying exactly one of discordId and
\* discordHandle is rejected with the pairing violation on createdBy, under
\* POST and under PATCH.
C4_CreatedByOneSupplied ==
  (Checked /\ SuppliesOne(Body.createdBy)) =>
    ~ok /\ <<<<"createdBy">>, "is-optional">> \in errs

\* C4 amended: a createdBy holding exactly one non-empty identifier (the other
\* missing or the empty string) is rejected with the pairing violation on
\* createdBy, under POST and under PATCH.
C4_CreatedByHalfRejected ==
  (Checked /\ OneOfPair(Body.createdBy)) =>
    ~ok /\ <<<<"createdBy">>, "is-optional">> \in errs

C4_Witness ==
  /\ Checked /\ method = "PATCH" /\ ~ok
  /\ Body.createdBy = Some(User(Some("1"), Undef, Undef))
  /\ errs = {<<<<"createdBy">>, "is-optional">>}

\* C5: a reward whose amount, scale and amountWithoutScale are numbers (zero
\* included) and whose currency is set never gets the completeness violation,
\* under either method; the all-zero reward with currency BANK is accepted.
C5_ZeroIsPresent ==
  Checked =>
    LET r == Body.reward
    IN /\ (r # Undef /\ Get(r).amount # Undef /\ Get(r).scale # Undef
             /\ Get(r).amountWithoutScale # Undef /\ TruthyStr(Get(r).currency))
          => <<<<"reward">>, "is-optional">> \notin errs
       /\ (r = Some(ZeroReward) /\ \A k \in DOMAIN Good \ {"reward"} : Body[k] = Good[k])
          => ok

C5_Witness ==
  /\ Checked /\ method = "POST" /\ ok
  /\ Body = [Good EXCEPT !.reward = Some(ZeroReward)]
  /\ Get(out).reward = Some(ZeroReward)

\* How many of the four reward sub-fields the object r supplies.
Supplied(r) == Cardinality({k \in RewardKeys : r[k] # Undef})
Partial(v) == v # Undef /\ Supplied(Get(v)) >= 1 /\ Supplied(Get(v)) < 4

HasUnknown(v) == v # Undef /\ Get(v)[UnknownKey] # Undef

\* The candidate carries an undeclared key at the top level or in a nested object.
UnknownAnywhere(b) ==
  \/ b[UnknownKey] # Undef
  \/ \E c \in Composites : HasUnknown(b[c])
  \/ /\ b.statusHistory # Undef
     /\ \E i \in DOMAIN Get(b.statusHistory) : Get(b.statusHistory)[i][UnknownKey] # Undef

\* C7: a candidate carrying an undeclared key, at the top level or inside
\* reward, an identity pair or a statusHistory entry, fails with an unknown-key
\* violation under either method, so no validated output carries such a key.
C7_ClosedSchema ==
  /\ (Checked /\ UnknownAnywhere(Body)) => (~ok /\ \E e \in errs : e[2] = "noUnknown")
  /\ (Checked /\ ok) => ~UnknownAnywhere(Get(out))

\* C8: the claim validator accepts a candidate only if submissionNotes is set,
\* claimedBy is an object with both discordId and discordHandle set, status is
\* set and statusHistory is a non-empty sequence.
C8_ClaimRequiresIdentity ==
  (kind = "checkedClaim" /\ ok) =>
    /\ TruthyStr(Body.submissionNotes)
    /\ Body.claimedBy # Undef
    /\ TruthyStr(Get(Body.claimedBy).discordId)
    /\ TruthyStr(Get(Body.claimedBy).discordHandle)
    /\ Body.status # Undef
    /\ Body.statusHistory # Undef /\ Len(Get(Body.statusHistory)) > 0

SixStatuses == {"Draft", "Open", "In-Progress", "In-Review", "Completed", "Deleted"}

\* The status values an option of a statusHistory holds.
HistoryStatuses(h) ==
  IF h = Undef THEN {}
  ELSE {Get(Get(h)[i].status) : i \in {j \in DOMAIN Get(h) : Get(h)[j].status # Undef}}

\* C9: a POST, PATCH or claim request whose status, or whose statusHistory
\* entry's status, is a value outside the six declared ones is rejected with a
\* oneOf (invalid-enum) violation on that path; the stored record's status is
\* one of the six values, and so is every status its history holds.
C9_StatusClosed ==
  /\ (kind \in {"create", "update", "claim"} /\ Body.status # Undef
        /\ Get(Body.status) \notin SixStatuses)
     => ~ok /\ <<<<"status">>, "oneOf">> \in errs
  /\ (kind \in {"create", "update", "claim"}
        /\ HistoryStatuses(Body.statusHistory) \ SixStatuses # {})
     => ~ok /\ \E e \in Under(errs, "statusHistory") : e[2] = "oneOf"
  /\ stored # Undef =>
       /\ Get(stored).status # Undef /\ Get(Get(stored).status) \in SixStatuses
       /\ HistoryStatuses(Get(stored).statusHistory) \subseteq SixStatuses

C9_Witness ==
  /\ kind = "update" /\ ~ok /\ n = 3
  /\ Body.status = Some("Bogus")
  /\ Get(stored).status = Some("In-Review")
  /\ HistoryStatuses(Get(stored).statusHistory) = {"In-Review"}

\* C10: a PATCH that omits reward, createdBy, claimedBy, submittedBy or
\* reviewedBy has no violation reported for that field, its validated output
\* holds the field as undefined (no object of defaults or of empty sub-fields),
\* and the stored composite is the same after the request as before it.
C10_OmittedCompositeUntouched ==
  [][kind' = "update" /\ n' = n + 1 =>
       \A c \in Composites :
         Get(cand')[c] = Undef =>
           /\ Under(errs', c) = {}
           /\ ok' => Get(out')[c] = Undef
           /\ Get(stored')[c] = Get(stored)[c]]_vars

C10_Witness ==
  /\ kind = "update" /\ ok /\ ~strict
  /\ Body.reward = Undef /\ Body.createdBy = Undef /\ Body.title = Some("other")
  /\ Get(out).reward = Undef
  /\ Get(stored).reward = Some(RewardOf(Some(5), Some("ETH"), Some(3), Some(5000), Undef))
  /\ Get(stored).createdBy = Some(GoodUser)

====
